---- MODULE Spec2Model ----
(***************************************************************************)
(* A model of the Camect hub integration for Home Assistant: the hub       *)
(* session (CamectHub), its camera records (Camera), the alert and mode    *)
(* switches and the motion sensors, and the push-event handler             *)
(* CamectHub.handle_camect_event that fans vendor events out to them.      *)
(***************************************************************************)
EXTENDS Integers, Sequences, FiniteSets, TLC

(***************************************************************************)
(* Bounds of the model.                                                    *)
(***************************************************************************)
\* The wall clock of the motion-window specification runs from 0 to MaxClock.
MaxClock == 22

(***************************************************************************)
(* Program constants.                                                      *)
(***************************************************************************)
\* binary_sensor.py: timedelta(seconds=20)
MotionWindow == 20

\* homeassistant.const.ATTR_MODE, the tag tested first on evt["type"]
ATTR_MODE == "mode"
\* const.py (not part of the sources at hand): the other tags and labels
ATTR_ALERT == "alert"
ATTR_CAM_OFFLINE == "offline"
ATTR_CAM_ONLINE == "online"
ATTR_MODE_DEFAULT == "default"
ATTR_MODE_HOME == "home"
ATTR_UNKNOWN_OBJ == "unknown"
ATTR_MODE_REASON == "reason"

\* Python's None for cam.last_motion (times are naturals)
None == -1

(***************************************************************************)
(* Strings that are searched by substring are sequences of chunks.         *)
(***************************************************************************)
\* Python's `s in t` on two strings
IsSubstr(s, t) ==
    \E i \in 0..(Len(t) - Len(s)) : SubSeq(t, i + 1, i + Len(s)) = s

Cam456 == <<"cam456">>
Hub123Cam456 == <<"hub123-", "cam456">>

\* The cameras the vendor hub knows (json["id"] of list_cameras)
VendorCamIds == {Cam456, Hub123Cam456}

(***************************************************************************)
(* A field of a vendor event: absent from the dict, present and None, or   *)
(* present with a value.                                                   *)
(***************************************************************************)
Absent(v) == [k |-> "missing", v |-> v]
Null(v) == [k |-> "null", v |-> v]
Val(v) == [k |-> "val", v |-> v]


(***************************************************************************)
(* The vendor events the handler is fed.  evt["type"] is free text; what   *)
(* the handler reads of it is which tags it contains, so a type is the set *)
(* of tags its text contains.                                              *)
(***************************************************************************)
NoField == Absent("")

Tags == {ATTR_MODE, ATTR_ALERT, ATTR_CAM_OFFLINE, ATTR_CAM_ONLINE}

DescFields == {Absent(""), Null(""), Val(ATTR_MODE_DEFAULT), Val(ATTR_MODE_HOME), Val("away")}
CamIdFields ==
    {Absent(<<>>), Null(<<>>), Val(<<>>), Val(Cam456), Val(Hub123Cam456), Val(<<"cam789">>)}
DetectedObjFields == {Absent(""), Null(""), Val(""), Val("person")}

Evt(type, desc, cam_id, cam_name, detected_obj) ==
    [type |-> type, desc |-> desc, cam_id |-> cam_id, cam_name |-> cam_name,
     detected_obj |-> detected_obj]

\* Events of one tag, with the fields its branch reads present, null or missing
ModeEvents ==
    {Evt(Val({ATTR_MODE}), d, Absent(<<>>), NoField, NoField) : d \in DescFields}
AlertEvents ==
    {Evt(Val({ATTR_ALERT}), NoField, c, NoField, o) :
        c \in CamIdFields, o \in DetectedObjFields}
ConnTypes == {Val({ATTR_CAM_OFFLINE}), Val({ATTR_CAM_ONLINE})}
ConnEvents ==
    {Evt(t, NoField, c, Val("porch"), NoField) : t \in ConnTypes, c \in CamIdFields}
    \cup {Evt(t, NoField, Val(Cam456), Absent(""), NoField) : t \in ConnTypes}

\* Events whose type holds two tags, with every field present
OverlapTypes ==
    {Val({ATTR_MODE, ATTR_ALERT}), Val({ATTR_MODE, ATTR_CAM_OFFLINE}),
     Val({ATTR_ALERT, ATTR_CAM_OFFLINE}), Val({ATTR_ALERT, ATTR_CAM_ONLINE}),
     Val({ATTR_CAM_OFFLINE, ATTR_CAM_ONLINE})}
OverlapEvents ==
    {Evt(t, Val(d), Val(Cam456), Val("porch"), Val("person")) :
        t \in OverlapTypes, d \in {ATTR_MODE_DEFAULT, ATTR_MODE_HOME}}

\* Events of no tag, of a null type and of no type at all
OtherTypes == {Val({}), Null({}), Absent({})}
OtherEvents == {Evt(t, NoField, Absent(<<>>), NoField, NoField) : t \in OtherTypes}

Events == ModeEvents \cup AlertEvents \cup ConnEvents \cup OverlapEvents \cup OtherEvents

\* No event: the operation was not the event handler
NoEvent == Evt(Absent({"none"}), NoField, Absent(<<>>), NoField, NoField)

\* Python's `tag in evt["type"]`, once evt["type"] is known to be a string
HasTag(evt, tag) == tag \in evt.type.v

(***************************************************************************)
(* What list_cameras returns: a list of camera descriptions.               *)
(***************************************************************************)
CamJson == [id : VendorCamIds, disabled : BOOLEAN, is_alert_disabled : BOOLEAN]

\* The replies a refresh may get: any cameras, in any order, with any flags
CameraLists ==
    {<<>>} \cup {<<j>> : j \in CamJson}
           \cup {p \in CamJson \X CamJson : p[1].id # p[2].id}

\* The replies discovery gets at setup: cameras as the vendor first reports
\* them, enabled and alerting, in the vendor's order
Fresh(id) == [id |-> id, disabled |-> FALSE, is_alert_disabled |-> FALSE]
BothCameras == <<Fresh(Cam456), Fresh(Hub123Cam456)>>
DiscoveryLists == {<<>>, <<Fresh(Cam456)>>, <<Fresh(Hub123Cam456)>>, BothCameras}

(***************************************************************************)
(* The state.                                                              *)
(***************************************************************************)
VARIABLES
    phase,        \* where the config entry's setup stands
    listening,    \* the vendor client holds the hub's event listener
    escaped,      \* an exception left handle_camect_event
    mode,         \* CamectHub.mode
    modeswitch,   \* CamectHub.modeswitch: the number of HubModeSwitch appended
    cameras,      \* CamectHub.cameras: the Camera objects, in order
    enabled,      \* per camera: NOT the vendor's disabled flag last read
    now,          \* datetime.now()
    delivered,    \* the event the last operation handled, if it handled one
    outcome,      \* where the last operation ended
    fired,        \* hass.bus.async_fire calls of the last operation
    modeDirty,    \* schedule_update_ha_state calls on each HubModeSwitch
    camDirty,     \* schedule_update_ha_state calls on each Camera
    motionDirty,  \* schedule_update_ha_state calls on each camera's sensors
    commands,     \* vendor commands issued by the last operation
    info,         \* CamectHub.info["mode"], as last fetched from the vendor
    listeners,    \* api.add_event_listener calls that returned
    device,       \* the hub is in the host's device registry
    refreshing,   \* HubModeSwitch.async_update is between its two awaits
    registry      \* hass.data[DOMAIN] holds the hub under the entry's id

hubVars == <<phase, listening, escaped, mode, modeswitch>>
camVars == <<cameras, enabled>>
outVars == <<delivered, outcome, fired, modeDirty, camDirty, motionDirty, commands>>
sessVars == <<info, listeners, device, refreshing, registry>>
vars == <<hubVars, camVars, outVars, sessVars, now>>

\* self.info before update_hub_info has assigned it, and an info dict that
\* holds no "mode" key
NoInfo == "unset"
NoMode == "nomode"

Zeros(n) == [i \in 1..n |-> 0]
ZeroSensors(cams) == [i \in 1..Len(cams) |-> Zeros(cams[i].motion_sensor)]

\* CamectHub.__init__
Init ==
    /\ phase = "new"
    /\ listening = FALSE
    /\ escaped = FALSE
    /\ mode = ATTR_MODE_DEFAULT
    /\ modeswitch = 0
    /\ cameras = <<>>
    /\ enabled = <<>>
    /\ now = 0
    /\ delivered = NoEvent
    /\ outcome = "constructed"
    /\ fired = <<>>
    /\ modeDirty = <<>>
    /\ camDirty = <<>>
    /\ motionDirty = <<>>
    /\ commands = <<>>
    /\ info = NoInfo
    /\ listeners = 0
    /\ device = FALSE
    /\ refreshing = FALSE
    /\ registry = TRUE

\* The outputs of an operation that fires nothing and marks nothing dirty
Quiet(cams, nswitch, what) ==
    /\ delivered' = NoEvent
    /\ outcome' = what
    /\ fired' = <<>>
    /\ modeDirty' = Zeros(nswitch)
    /\ camDirty' = Zeros(Len(cams))
    /\ motionDirty' = ZeroSensors(cams)
    /\ commands' = <<>>

(***************************************************************************)
(* Setup.                                                                  *)
(***************************************************************************)
\* Mutant: the vendor's mode is stored as it comes
UpdateModePropertyRaw(infoMode) == infoMode

\* CamectHub.update_mode_property, on info["mode"]
UpdateModeProperty(infoMode) ==
    IF infoMode \in {ATTR_MODE_DEFAULT, ATTR_MODE_HOME} THEN infoMode ELSE ATTR_MODE_DEFAULT

VendorModes == {ATTR_MODE_DEFAULT, ATTR_MODE_HOME, "away"}

\* The mode get_info reports while the entry is set up, in the specification
\* of the event stream: one the hub does not recognize.  (The specification
\* of the mode goes through all of VendorModes.)
SetupModes == {"away"}

\* The statement of async_initialize_hub that raises, if any, in the order of
\* the statements: camect.Hub(...), get_info, info["id"], info["name"],
\* info["local_https_url"], info["mode"], add_event_listener
InitFailures ==
    {"none", "connect", "info", "no_id", "no_name", "no_url", "no_mode", "listener"}

\* `self.info = ...` was reached
InfoFetched(failAt) == failAt \notin {"connect", "info"}

\* `self.mode = ...` of update_mode_property was reached
ModeUpdated(failAt) == failAt \in {"listener", "none"}

\* Mutant: the listener is registered right after the connection is made
RegistersListenerEarly(failAt) == failAt # "connect"

\* add_event_listener, the last statement of the try body, returned
RegistersListener(failAt) == failAt = "none"

\* CamectHub.async_initialize_hub: failAt is the step that raises, if any.
\* The method returns False (phase "failed") on any of them, True otherwise.
InitializeHub(failAt, infoMode) ==
    /\ phase = "new"
    /\ phase' = IF failAt = "none" THEN "hub_ready" ELSE "failed"
    /\ info' = IF ~InfoFetched(failAt) THEN info
               ELSE IF failAt = "no_mode" THEN NoMode ELSE infoMode
    /\ mode' = IF ModeUpdated(failAt) THEN UpdateModeProperty(infoMode) ELSE mode
    /\ listening' = RegistersListener(failAt)
    /\ listeners' = IF RegistersListener(failAt) THEN listeners + 1 ELSE listeners
    /\ Quiet(cameras, modeswitch, IF failAt = "none" THEN "initialized" ELSE "init_failed")
    /\ UNCHANGED <<escaped, modeswitch, camVars, device, refreshing, registry, now>>

\* __init__.async_setup_entry, after the hub said it is initialized:
\* device_registry.async_get_or_create for the hub
RegisterHubDevice ==
    /\ phase = "hub_ready"
    /\ phase' = "device_ready"
    /\ device' = TRUE
    /\ Quiet(cameras, modeswitch, "device_registered")
    /\ UNCHANGED <<listening, escaped, mode, modeswitch, camVars, info, listeners,
                   refreshing, registry, now>>

\* Camera.__init__
NewCamera(json) ==
    [device_id |-> json.id,
     disabled |-> json.disabled,
     is_alert_disabled |-> json.is_alert_disabled,
     alert_switch |-> 0,
     motion_sensor |-> 0,
     last_motion |-> None,
     last_detected_obj |-> "",
     offline |-> FALSE]

\* camera.async_setup_entry
SetupCameras(list) ==
    /\ phase = "device_ready"
    /\ phase' = "cameras_ready"
    /\ cameras' = [i \in 1..Len(list) |-> NewCamera(list[i])]
    /\ enabled' = [i \in 1..Len(list) |-> ~list[i].disabled]
    /\ Quiet(cameras', modeswitch, "cameras_added")
    /\ UNCHANGED <<listening, escaped, mode, modeswitch, sessVars, now>>

\* Mutant: the switch platform reads hub.cameras before the camera platform
\* has filled it
SetupSwitchesBeforeCameras ==
    /\ phase = "cameras_ready"
    /\ phase' = "switches_ready"
    /\ modeswitch' = modeswitch + 1
    /\ cameras' = cameras
    /\ Quiet(cameras', modeswitch', "switches_added")
    /\ UNCHANGED <<listening, escaped, mode, enabled, sessVars, now>>

\* switch.async_setup_entry: HubModeSwitch.__init__, CameraAlertSwitch.__init__
SetupSwitches ==
    /\ phase = "cameras_ready"
    /\ phase' = "switches_ready"
    /\ modeswitch' = modeswitch + 1
    /\ cameras' = [i \in 1..Len(cameras) |->
                      [cameras[i] EXCEPT !.alert_switch = @ + 1]]
    /\ Quiet(cameras', modeswitch', "switches_added")
    /\ UNCHANGED <<listening, escaped, mode, enabled, sessVars, now>>

\* binary_sensor.async_setup_entry: CameraMotionSensor.__init__
SetupSensors ==
    /\ phase = "switches_ready"
    /\ phase' = "running"
    /\ cameras' = [i \in 1..Len(cameras) |->
                      [cameras[i] EXCEPT !.motion_sensor = @ + 1]]
    /\ Quiet(cameras', modeswitch, "sensors_added")
    /\ UNCHANGED <<listening, escaped, mode, modeswitch, enabled, sessVars, now>>

(***************************************************************************)
(* CamectHub.handle_camect_event.  The body runs up to its first raising   *)
(* statement; what it assigned before that stays assigned.                 *)
(***************************************************************************)
\* Mutant: the substring test the other way round
MatchesReversed(evt_id, device_id) == IsSubstr(device_id, evt_id)

\* `evt["cam_id"] in cam.device_id`
Matches(evt_id, device_id) == IsSubstr(evt_id, device_id)

\* Mutant: the heartbeat test never succeeds
ModeInNever(m, desc) == FALSE

\* `self.mode in evt["desc"]`, reached only with evt["desc"] one of the two
\* recognized modes, neither of which is part of the other
ModeIn(m, desc) == m = desc

\* `evt["detected_obj"] or ATTR_UNKNOWN_OBJ`, with the field present
OrUnknown(field) ==
    IF field.k = "val" /\ field.v # "" THEN field.v ELSE ATTR_UNKNOWN_OBJ

\* Mutant: the mode switches are not told
MarkNoModeSwitch(n) == [i \in 1..n |-> 0]

\* `for modeswitch in self.modeswitch: modeswitch.schedule_update_ha_state()`
MarkModeSwitches(n) == [i \in 1..n |-> 1]

\* What the body has done so far to the cameras
Start ==
    [cameras |-> cameras, camDirty |-> Zeros(Len(cameras)),
     motionDirty |-> ZeroSensors(cameras), raised |-> FALSE]

\* The alert branch's statements for a matching camera
AlertCamera(evt, st, i) ==
    LET stamped == [st EXCEPT !.cameras[i].last_motion = now] IN
    IF evt.detected_obj.k = "missing"
    THEN [stamped EXCEPT !.raised = TRUE]
    ELSE [stamped EXCEPT
            !.cameras[i].last_detected_obj = OrUnknown(evt.detected_obj),
            !.camDirty[i] = @ + 1,
            !.motionDirty[i] = [s \in DOMAIN @ |-> @[s] + 1]]

\* Mutant: the online branch sets the flag as the offline branch does
ConnCameraAlwaysOffline(st, i, off) ==
    [st EXCEPT !.cameras[i].offline = TRUE, !.camDirty[i] = @ + 1]

\* The offline and online branches' statements for a matching camera
ConnCamera(st, i, off) ==
    [st EXCEPT !.cameras[i].offline = off, !.camDirty[i] = @ + 1]

\* `for cam in self.cameras: if evt["cam_id"] in cam.device_id: ...`
RECURSIVE CameraLoop(_, _, _, _)
CameraLoop(evt, st, i, branch) ==
    IF st.raised \/ i > Len(st.cameras) THEN st
    ELSE IF evt.cam_id.k # "val" THEN [st EXCEPT !.raised = TRUE]
    ELSE IF Matches(evt.cam_id.v, st.cameras[i].device_id)
         THEN CameraLoop(evt,
                         IF branch = ATTR_ALERT
                         THEN AlertCamera(evt, st, i)
                         ELSE ConnCamera(st, i, branch = ATTR_CAM_OFFLINE),
                         i + 1, branch)
         ELSE CameraLoop(evt, st, i + 1, branch)

\* The host's bus methods: async_fire is to be called in the event loop
\* only, fire may be called from any thread
LoopOnly(call) == call = "async_fire"

\* Mutant: the event is put on the bus twice
FireCameraEventTwice(evt_type, evt) ==
    LET data == [call |-> "async_fire",
                 type |-> evt_type,
                 device_id |-> IF evt.cam_id.k = "null"
                               THEN [hub |-> TRUE, cam_id |-> <<>>]
                               ELSE [hub |-> FALSE, cam_id |-> evt.cam_id.v],
                 raw |-> evt]
    IN <<data, data>>

\* CamectHub.fire_camera_event: the bus method called and the data handed
\* to it
FireCameraEvent(evt_type, evt) ==
    <<[call |-> "async_fire",
       type |-> evt_type,
       device_id |-> IF evt.cam_id.k = "null"
                     THEN [hub |-> TRUE, cam_id |-> <<>>]
                     ELSE [hub |-> FALSE, cam_id |-> evt.cam_id.v],
       raw |-> evt]>>

Result(m, st, md, f, what) ==
    [mode |-> m, cameras |-> st.cameras, modeDirty |-> md, camDirty |-> st.camDirty,
     motionDirty |-> st.motionDirty, fired |-> f, raised |-> st.raised,
     outcome |-> what]

Raised(st) == Result(mode, [st EXCEPT !.raised = TRUE], Zeros(modeswitch), <<>>, "error")

\* Mutant: any desc is taken for a mode
RecognizedAny(desc) == desc.k = "val"

\* `evt["desc"] in (ATTR_MODE_DEFAULT, ATTR_MODE_HOME)`, desc being present
Recognized(desc) == desc.k = "val" /\ desc.v \in {ATTR_MODE_DEFAULT, ATTR_MODE_HOME}

\* The `if ATTR_MODE in evt["type"]` branch
ModeBranch(evt) ==
    IF evt.desc.k = "missing" THEN Raised(Start)
    ELSE IF Recognized(evt.desc)
    THEN IF ModeIn(mode, evt.desc.v)
         THEN Result(mode, Start, Zeros(modeswitch), <<>>, "mode_heartbeat")
         ELSE Result(evt.desc.v, Start, MarkModeSwitches(modeswitch), <<>>, "mode_changed")
    ELSE Result(mode, Start, Zeros(modeswitch), <<>>, "mode_unknown")

\* The alert, offline and online branches
CameraBranch(evt, branch) ==
    IF branch # ATTR_ALERT /\ (evt.cam_name.k = "missing" \/ evt.cam_id.k = "missing")
    THEN Raised(Start)
    ELSE LET st == CameraLoop(evt, Start, 1, branch) IN
         IF st.raised \/ evt.cam_id.k = "missing" THEN Raised(st)
         ELSE Result(mode, st, Zeros(modeswitch), FireCameraEvent(branch, evt), branch)

\* Mutant: an unhandled type is forwarded to the bus
UnhandledFires(evt) ==
    Result(mode, Start, Zeros(modeswitch), FireCameraEvent("unhandled", evt), "unhandled")

\* The final `else`: an unhandled type is logged
Unhandled(evt) == Result(mode, Start, Zeros(modeswitch), <<>>, "unhandled")

\* Mutant: the tags are tested from the last to the first
HandlerBodyLastTagFirst(evt) ==
    IF evt.type.k # "val" THEN Raised(Start)
    ELSE IF HasTag(evt, ATTR_CAM_ONLINE) THEN CameraBranch(evt, ATTR_CAM_ONLINE)
    ELSE IF HasTag(evt, ATTR_CAM_OFFLINE) THEN CameraBranch(evt, ATTR_CAM_OFFLINE)
    ELSE IF HasTag(evt, ATTR_ALERT) THEN CameraBranch(evt, ATTR_ALERT)
    ELSE IF HasTag(evt, ATTR_MODE) THEN ModeBranch(evt)
    ELSE Unhandled(evt)

\* The statements inside `try`
HandlerBody(evt) ==
    IF evt.type.k # "val" THEN Raised(Start)
    ELSE IF HasTag(evt, ATTR_MODE) THEN ModeBranch(evt)
    ELSE IF HasTag(evt, ATTR_ALERT) THEN CameraBranch(evt, ATTR_ALERT)
    ELSE IF HasTag(evt, ATTR_CAM_OFFLINE) THEN CameraBranch(evt, ATTR_CAM_OFFLINE)
    ELSE IF HasTag(evt, ATTR_CAM_ONLINE) THEN CameraBranch(evt, ATTR_CAM_ONLINE)
    ELSE Unhandled(evt)

\* Mutant: no except clause
PropagatesAll(raised) == raised

\* `except Exception`: whether an exception raised in the body leaves the handler
Propagates(raised) == FALSE

\* The listener lambda, called by the vendor client on its own thread.  An
\* exception that leaves it ends the delivery of events.
HandleCamectEvent(evt) ==
    /\ listening
    /\ \E r \in {HandlerBody(evt)} :
       /\ mode' = r.mode
       /\ cameras' = r.cameras
       /\ modeDirty' = r.modeDirty
       /\ camDirty' = r.camDirty
       /\ motionDirty' = r.motionDirty
       /\ fired' = r.fired
       /\ outcome' = r.outcome
       /\ escaped' = (escaped \/ Propagates(r.raised))
       /\ listening' = ~Propagates(r.raised)
    /\ delivered' = evt
    /\ commands' = <<>>
    /\ UNCHANGED <<phase, modeswitch, enabled, sessVars, now>>

(***************************************************************************)
(* The read-only properties of the camera and of its views.                *)
(***************************************************************************)
\* Camera.available
Available(cam) == ~cam.disabled /\ ~cam.offline

\* Camera.is_streaming
IsStreaming(cam) == ~cam.disabled /\ ~cam.offline

\* Mutant: recording does not look at the offline flag
IsRecordingIgnoresOffline(cam) == ~cam.disabled

\* Camera.is_recording
IsRecording(cam) == ~cam.disabled /\ ~cam.offline

\* Camera.is_on
CameraIsOn(cam) == ~cam.disabled /\ ~cam.offline

\* CameraAlertSwitch.available
AlertSwitchAvailable(cam) == Available(cam)

\* CameraMotionSensor.available
MotionSensorAvailable(cam) == Available(cam)

\* CameraAlertSwitch.is_on
AlertSwitchIsOn(cam) == ~cam.is_alert_disabled

\* Mutant: the window includes its end
MotionSensorIsOnInclusive(cam, t) ==
    IF cam.last_motion = None THEN FALSE
    ELSE IF cam.last_motion >= t - MotionWindow THEN TRUE
    ELSE FALSE

\* CameraMotionSensor.is_on, read at time t
MotionSensorIsOn(cam, t) ==
    IF cam.last_motion = None THEN FALSE
    ELSE IF cam.last_motion > t - MotionWindow THEN TRUE
    ELSE FALSE

(***************************************************************************)
(* Camera.async_update: the periodic refresh of one camera from the list   *)
(* the vendor returns.                                                     *)
(***************************************************************************)
\* `json["id"] in self.device_id`
JsonMatches(json_id, device_id) == IsSubstr(json_id, device_id)

\* Mutant: the refresh takes a listed camera for an online one
RefreshFromResetsOffline(cam, json) ==
    [cam EXCEPT !.is_alert_disabled = json.is_alert_disabled,
                !.disabled = json.disabled,
                !.offline = FALSE]

\* Mutant: the refresh forgets the disabled flag
RefreshFromNoDisabled(cam, json) ==
    [cam EXCEPT !.is_alert_disabled = json.is_alert_disabled]

\* The assignments of the loop body that the model keeps
RefreshFrom(cam, json) ==
    [cam EXCEPT !.is_alert_disabled = json.is_alert_disabled,
                !.disabled = json.disabled]

\* `for json in cam_json: if json["id"] in self.device_id: ...`
RECURSIVE RefreshLoop(_, _, _)
RefreshLoop(cam, list, k) ==
    IF k > Len(list) THEN cam
    ELSE IF JsonMatches(list[k].id, cam.device_id)
         THEN RefreshLoop(RefreshFrom(cam, list[k]), list, k + 1)
         ELSE RefreshLoop(cam, list, k + 1)

\* The disabled flags of `list` that a refresh of `cam` reads, in order
ReadFlags(cam, list) ==
    LET hits == SelectSeq(list, LAMBDA json : IsSubstr(json.id, cam.device_id))
    IN [k \in 1..Len(hits) |-> hits[k].disabled]

CameraAsyncUpdate(i, list) ==
    /\ phase = "running"
    /\ i \in 1..Len(cameras)
    /\ cameras' = [cameras EXCEPT ![i] = RefreshLoop(cameras[i], list, 1)]
    /\ enabled' = LET read == ReadFlags(cameras[i], list) IN
                  IF read = <<>> THEN enabled
                  ELSE [enabled EXCEPT ![i] = ~read[Len(read)]]
    /\ Quiet(cameras, modeswitch, "refreshed")
    /\ UNCHANGED <<hubVars, sessVars, now>>

(***************************************************************************)
(* The alert switch's commands.  ok: the vendor call returned.             *)
(***************************************************************************)
AlertCommand(name, cam) ==
    <<[cmd |-> name, cam_id |-> cam.device_id, reason |-> ATTR_MODE_REASON]>>

\* What a CameraAlertSwitch command leaves in the camera it belongs to
AfterAlertCommand(cam, name, ok) == cam

AlertSwitchCommand(i, name, ok) ==
    /\ phase = "running"
    /\ i \in 1..Len(cameras)
    /\ commands' = AlertCommand(name, cameras[i])
    /\ cameras' = [cameras EXCEPT ![i] = AfterAlertCommand(@, name, ok)]
    /\ delivered' = NoEvent
    /\ outcome' = IF ok THEN name ELSE "command_error"
    /\ fired' = <<>>
    /\ modeDirty' = Zeros(modeswitch)
    /\ camDirty' = Zeros(Len(cameras))
    /\ motionDirty' = ZeroSensors(cameras)
    /\ UNCHANGED <<hubVars, enabled, sessVars, now>>

\* CameraAlertSwitch.async_turn_on
AlertSwitchTurnOn(i, ok) == AlertSwitchCommand(i, "enable_alert", ok)

\* CameraAlertSwitch.async_turn_off
AlertSwitchTurnOff(i, ok) == AlertSwitchCommand(i, "disable_alert", ok)

(***************************************************************************)
(* The mode switch.  Its commands call the vendor's set_mode and then      *)
(* update_mode_property, which reads the info dict the hub holds; its      *)
(* periodic refresh fetches the info dict and then reads it.               *)
(***************************************************************************)
\* HubModeSwitch.is_on: `self.hub.mode in ATTR_MODE_DEFAULT`, on a mode that
\* is one of the two recognized modes
HubModeSwitchIsOn(m) == m = ATTR_MODE_DEFAULT

\* hub.api.set_mode(target, ATTR_MODE_REASON)
SetModeCommand(target) ==
    <<[cmd |-> "set_mode", mode |-> target, reason |-> ATTR_MODE_REASON]>>

\* Mutant: update_mode_property runs though set_mode raised
ModeAfterCommandAlways(m, i, ok) ==
    IF i # NoMode THEN UpdateModeProperty(i) ELSE m

\* hub.mode after a HubModeSwitch command: `await ...set_mode...` raises
\* when the vendor call fails (ok is FALSE), and update_mode_property
\* raises KeyError on an info dict without "mode"
ModeAfterCommand(m, i, ok) ==
    IF ok /\ i # NoMode THEN UpdateModeProperty(i) ELSE m

\* Where a HubModeSwitch command ends: the exception of the vendor call or
\* of update_mode_property reaches the caller, or the command returns
ModeCommandOutcome(i, ok) ==
    IF ~ok THEN "command_error"
    ELSE IF i = NoMode THEN "key_error"
    ELSE "set_mode"

HubModeCommand(target, ok) ==
    /\ phase = "running"
    /\ commands' = SetModeCommand(target)
    /\ mode' = ModeAfterCommand(mode, info, ok)
    /\ delivered' = NoEvent
    /\ outcome' = ModeCommandOutcome(info, ok)
    /\ fired' = <<>>
    /\ modeDirty' = Zeros(modeswitch)
    /\ camDirty' = Zeros(Len(cameras))
    /\ motionDirty' = ZeroSensors(cameras)
    /\ UNCHANGED <<phase, listening, escaped, modeswitch, camVars, sessVars, now>>

\* HubModeSwitch.async_turn_on
HubModeSwitchTurnOn(ok) == HubModeCommand(ATTR_MODE_DEFAULT, ok)

\* HubModeSwitch.async_turn_off
HubModeSwitchTurnOff(ok) == HubModeCommand(ATTR_MODE_HOME, ok)

\* What get_info may report as the mode
InfoReplies == VendorModes \cup {NoMode}

\* HubModeSwitch.async_update, first await: hub.update_hub_info().  ok: the
\* vendor's get_info returned.
HubModeSwitchUpdateInfo(reply, ok) ==
    /\ phase = "running"
    /\ ~refreshing
    /\ info' = IF ok THEN reply ELSE info
    /\ refreshing' = ok
    /\ Quiet(cameras, modeswitch, IF ok THEN "info_fetched" ELSE "refresh_error")
    /\ UNCHANGED <<hubVars, camVars, listeners, device, registry, now>>

\* HubModeSwitch.async_update, second await: hub.update_mode_property()
HubModeSwitchUpdateMode ==
    /\ refreshing
    /\ refreshing' = FALSE
    /\ mode' = IF info = NoMode THEN mode ELSE UpdateModeProperty(info)
    /\ Quiet(cameras, modeswitch, IF info = NoMode THEN "refresh_error" ELSE "mode_refreshed")
    /\ UNCHANGED <<phase, listening, escaped, modeswitch, camVars, info, listeners,
                   device, registry, now>>

(***************************************************************************)
(* __init__.async_unload_entry.  unload_ok: the host unloaded the entry's  *)
(* platforms.  The listener stays with the vendor client.                  *)
(***************************************************************************)
AsyncUnloadEntry(unload_ok) ==
    /\ phase = "running"
    /\ phase' = IF unload_ok THEN "unloaded" ELSE phase
    /\ registry' = IF unload_ok THEN FALSE ELSE registry
    /\ Quiet(cameras, modeswitch, IF unload_ok THEN "unloaded" ELSE "unload_failed")
    /\ UNCHANGED <<listening, escaped, mode, modeswitch, camVars, info, listeners,
                   device, refreshing, now>>

(***************************************************************************)
(* Time passes.                                                            *)
(***************************************************************************)
Tick ==
    /\ now < MaxClock
    /\ now' = now + 1
    /\ UNCHANGED <<hubVars, camVars, outVars, sessVars>>

(***************************************************************************)
(* The specification of setup and of the event stream: the hub is set up   *)
(* platform by platform, and vendor events arrive from the moment the      *)
(* listener is registered.  It is explored at one reading of the clock.    *)
(***************************************************************************)
Next ==
    \/ \E failAt \in InitFailures, infoMode \in SetupModes : InitializeHub(failAt, infoMode)
    \/ RegisterHubDevice
    \/ \E list \in DiscoveryLists : SetupCameras(list)
    \/ SetupSwitches
    \/ SetupSensors
    \/ \E evt \in Events : HandleCamectEvent(evt)

Spec == Init /\ [][Next]_vars

(***************************************************************************)
(* A hub that has been set up with both cameras and has seen no event yet: *)
(* the state the setup reaches by InitializeHub on a vendor in the default *)
(* mode, RegisterHubDevice, SetupCameras(BothCameras), SetupSwitches and   *)
(* SetupSensors.                                                           *)
(***************************************************************************)
InitRunning ==
    /\ phase = "running"
    /\ listening = TRUE
    /\ escaped = FALSE
    /\ mode = ATTR_MODE_DEFAULT
    /\ modeswitch = 1
    /\ cameras = [i \in 1..2 |->
                    [NewCamera(BothCameras[i]) EXCEPT !.alert_switch = 1,
                                                      !.motion_sensor = 1]]
    /\ enabled = <<TRUE, TRUE>>
    /\ now = 0
    /\ delivered = NoEvent
    /\ outcome = "sensors_added"
    /\ fired = <<>>
    /\ modeDirty = <<0>>
    /\ camDirty = <<0, 0>>
    /\ motionDirty = <<<<0>>, <<0>>>>
    /\ commands = <<>>
    /\ info = ATTR_MODE_DEFAULT
    /\ listeners = 1
    /\ device = TRUE
    /\ refreshing = FALSE
    /\ registry = TRUE

(***************************************************************************)
(* The specification of the camera's views: on the running hub, cameras go *)
(* offline and online, are refreshed from the vendor's list, and have      *)
(* their alerts switched on and off.                                       *)
(***************************************************************************)
CamIndex == 1..Cardinality(VendorCamIds)

NextViews ==
    \/ \E evt \in ConnEvents : HandleCamectEvent(evt)
    \/ \E i \in CamIndex, list \in CameraLists : CameraAsyncUpdate(i, list)
    \/ \E i \in CamIndex, ok \in BOOLEAN : AlertSwitchTurnOn(i, ok)
    \/ \E i \in CamIndex, ok \in BOOLEAN : AlertSwitchTurnOff(i, ok)

SpecViews == InitRunning /\ [][NextViews]_vars

(***************************************************************************)
(* The specification of the motion window: on the running hub, alerts      *)
(* arrive for the cameras while the clock runs past the window.            *)
(***************************************************************************)
MotionEvents ==
    {Evt(Val({ATTR_ALERT}), NoField, Val(id), NoField, o) :
        id \in VendorCamIds, o \in {Absent(""), Null(""), Val("person")}}

NextMotion ==
    \/ \E evt \in MotionEvents : HandleCamectEvent(evt)
    \/ Tick

SpecMotion == InitRunning /\ [][NextMotion]_vars

(***************************************************************************)
(* The specification of the offline flag: on the running hub, offline and  *)
(* online events arrive among a mode change, an alert, a discarded alert   *)
(* and an unrecognized event, and cameras are refreshed.                   *)
(***************************************************************************)
BystanderEvents ==
    {Evt(Val({ATTR_MODE}), Val(ATTR_MODE_HOME), Absent(<<>>), NoField, NoField),
     Evt(Val({ATTR_ALERT}), NoField, Val(Cam456), NoField, Val("person")),
     Evt(Val({ATTR_ALERT}), NoField, Val(Cam456), NoField, NoField),
     Evt(Val({}), NoField, Absent(<<>>), NoField, NoField)}

NextOffline ==
    \/ \E evt \in ConnEvents \cup BystanderEvents : HandleCamectEvent(evt)
    \/ \E i \in CamIndex, list \in CameraLists : CameraAsyncUpdate(i, list)

SpecOffline == InitRunning /\ [][NextOffline]_vars

(***************************************************************************)
(* The specification of the refresh: on the running hub, the cameras are   *)
(* refreshed after a mode change, an alert and an offline event have left  *)
(* their marks.                                                            *)
(***************************************************************************)
MarkingEvents ==
    {Evt(Val({ATTR_MODE}), Val(ATTR_MODE_HOME), Absent(<<>>), NoField, NoField),
     Evt(Val({ATTR_ALERT}), NoField, Val(Cam456), NoField, Val("person")),
     Evt(Val({ATTR_CAM_OFFLINE}), NoField, Val(Hub123Cam456), Val("porch"), NoField)}

NextRefresh ==
    \/ \E evt \in MarkingEvents : HandleCamectEvent(evt)
    \/ \E i \in CamIndex, list \in CameraLists : CameraAsyncUpdate(i, list)

SpecRefresh == InitRunning /\ [][NextRefresh]_vars

(***************************************************************************)
(* The specification of the mode: the hub is set up, and from then on mode *)
(* events arrive, the mode switch is refreshed and is turned on and off,   *)
(* until the entry is unloaded.                                            *)
(***************************************************************************)
NextMode ==
    \/ \E failAt \in InitFailures, infoMode \in VendorModes : InitializeHub(failAt, infoMode)
    \/ RegisterHubDevice
    \/ \E list \in DiscoveryLists : SetupCameras(list)
    \/ SetupSwitches
    \/ SetupSensors
    \/ \E evt \in ModeEvents \cup OverlapEvents : HandleCamectEvent(evt)
    \/ \E reply \in InfoReplies, ok \in BOOLEAN : HubModeSwitchUpdateInfo(reply, ok)
    \/ HubModeSwitchUpdateMode
    \/ \E ok \in BOOLEAN : HubModeSwitchTurnOn(ok)
    \/ \E ok \in BOOLEAN : HubModeSwitchTurnOff(ok)
    \/ \E i \in CamIndex, ok \in BOOLEAN : AlertSwitchTurnOn(i, ok)
    \/ \E i \in CamIndex, ok \in BOOLEAN : AlertSwitchTurnOff(i, ok)
    \/ \E unload_ok \in BOOLEAN : AsyncUnloadEntry(unload_ok)

SpecMode == Init /\ [][NextMode]_vars

(***************************************************************************)
(* Properties.                                                             *)
(***************************************************************************)
CamerasOf(cams) == 1..Len(cams)
PostSetup == {"hub_ready", "device_ready", "cameras_ready", "switches_ready", "running"}

\* The branch an event of a string type is handled by
BranchOf(evt) ==
    IF ATTR_MODE \in evt.type.v THEN ATTR_MODE
    ELSE IF ATTR_ALERT \in evt.type.v THEN ATTR_ALERT
    ELSE IF ATTR_CAM_OFFLINE \in evt.type.v THEN ATTR_CAM_OFFLINE
    ELSE IF ATTR_CAM_ONLINE \in evt.type.v THEN ATTR_CAM_ONLINE
    ELSE "none"

CameraBranches == {ATTR_ALERT, ATTR_CAM_OFFLINE, ATTR_CAM_ONLINE}

\* The step is a call of the handler on the event it records
Handled == delivered' \in Events /\ HandleCamectEvent(delivered')

\* An event of a camera branch that carries every field the branch reads
Complete(evt) ==
    /\ evt.type.k = "val"
    /\ BranchOf(evt) \in CameraBranches
    /\ evt.cam_id.k = "val"
    /\ BranchOf(evt) = ATTR_ALERT => evt.detected_obj.k # "missing"
    /\ BranchOf(evt) # ATTR_ALERT => evt.cam_name.k # "missing"

\* C1: no exception ever leaves handle_camect_event, whatever the event and
\* the state of the hub, so once the listener is registered it stays
\* registered and later events are still delivered.
C1_NeverPropagates ==
    /\ ~escaped
    /\ phase \in PostSetup => listening

\* C1: a malformed event raised inside the handler and was contained
C1_Witness ==
    /\ outcome = "error"
    /\ delivered \in Events
    /\ phase = "running"
    /\ listening
    /\ ~escaped

\* C2 (as stated): an alert, offline or online event updates every camera
\* whose identifier is contained in the event's cam_id.
C2_IdWithinCamId ==
    [][(Handled /\ Complete(delivered'))
         => \A i \in CamerasOf(cameras) :
               IsSubstr(cameras[i].device_id, delivered'.cam_id.v) => camDirty'[i] = 1]_vars

\* C2 (amended): an alert, offline or online event changes a camera only if
\* the event's cam_id is contained in the camera's identifier, and an event
\* that carries every field its branch reads updates every such camera.
C2_CamIdWithinId ==
    [][(Handled /\ delivered'.type.k = "val" /\ BranchOf(delivered') \in CameraBranches)
         => LET evt == delivered'
                Hit(i) == evt.cam_id.k = "val"
                          /\ IsSubstr(evt.cam_id.v, cameras[i].device_id)
            IN \A i \in CamerasOf(cameras) :
                  /\ (cameras'[i] # cameras[i] \/ camDirty'[i] # 0) => Hit(i)
                  /\ (Complete(evt) /\ Hit(i)) =>
                        /\ camDirty'[i] = 1
                        /\ BranchOf(evt) = ATTR_ALERT => cameras'[i].last_motion = now
                        /\ BranchOf(evt) = ATTR_CAM_OFFLINE => cameras'[i].offline
                        /\ BranchOf(evt) = ATTR_CAM_ONLINE => ~cameras'[i].offline]_vars

\* C2: an event for "cam456" updated the camera "hub123-cam456", and an
\* event for "hub123-cam456" would not update the camera "cam456"
C2_Witness ==
    /\ delivered \in Events
    /\ Complete(delivered)
    /\ delivered.cam_id.v = Cam456
    /\ \E i \in CamerasOf(cameras) :
          cameras[i].device_id = Hub123Cam456 /\ camDirty[i] = 1
    /\ ~Matches(Hub123Cam456, Cam456)

\* C3: after any refreshes, offline events and online events, a camera is
\* available exactly when the vendor's last-read disabled flag is off and the
\* camera is not offline.
C3_Availability ==
    \A i \in CamerasOf(cameras) :
        Available(cameras[i]) = (enabled[i] /\ ~cameras[i].offline)

\* C3: one camera was refreshed to disabled, the other went offline and came
\* back
C3_Witness ==
    /\ outcome = ATTR_CAM_ONLINE
    /\ \E i, j \in CamerasOf(cameras) :
          /\ camDirty[i] = 1 /\ enabled[i] /\ Available(cameras[i])
          /\ ~enabled[j] /\ ~cameras[j].offline /\ ~Available(cameras[j])

\* C4: is_streaming, is_recording and is_on of a camera, and the available
\* of its alert switch and of its motion sensor, all equal the camera's
\* availability.
C4_ViewsAgree ==
    \A i \in CamerasOf(cameras) :
        LET cam == cameras[i] IN
        /\ IsStreaming(cam) = Available(cam)
        /\ IsRecording(cam) = Available(cam)
        /\ CameraIsOn(cam) = Available(cam)
        /\ AlertSwitchAvailable(cam) = Available(cam)
        /\ MotionSensorAvailable(cam) = Available(cam)

\* C4: after a command, one camera is offline though enabled and the other
\* is available
C4_Witness ==
    /\ commands # <<>>
    /\ \E i, j \in CamerasOf(cameras) :
          /\ cameras[i].offline /\ ~cameras[i].disabled /\ ~IsRecording(cameras[i])
          /\ Available(cameras[j]) /\ IsRecording(cameras[j])

\* C5: the motion sensor is on exactly when last_motion is set and less
\* than 20 seconds before the time of the read; it is off at 20 seconds.
C5_MotionWindow ==
    \A i \in CamerasOf(cameras) :
        MotionSensorIsOn(cameras[i], now) =
            (cameras[i].last_motion # None /\ now - cameras[i].last_motion < MotionWindow)

\* C5: one camera's alert is exactly 20 seconds old and its sensor is off,
\* the other's is 19 seconds old and its sensor is on
C5_Witness ==
    \E i, j \in CamerasOf(cameras) :
        /\ cameras[i].last_motion # None
        /\ now - cameras[i].last_motion = MotionWindow
        /\ ~MotionSensorIsOn(cameras[i], now)
        /\ cameras[j].last_motion # None
        /\ now - cameras[j].last_motion = MotionWindow - 1
        /\ MotionSensorIsOn(cameras[j], now)

\* C6: a mode event whose desc is the current mode changes nothing: not the
\* mode, not a camera, and it marks no observer dirty and fires nothing.
C6_HeartbeatNoOp ==
    [][(Handled /\ delivered'.type.k = "val" /\ ATTR_MODE \in delivered'.type.v
               /\ delivered'.desc = Val(mode))
         => /\ mode' = mode
            /\ cameras' = cameras
            /\ modeDirty' = Zeros(modeswitch)
            /\ camDirty' = Zeros(Len(cameras))
            /\ motionDirty' = ZeroSensors(cameras)
            /\ fired' = <<>>]_vars

\* C6: a heartbeat was handled with the mode switch registered
C6_Witness ==
    /\ delivered \in Events
    /\ delivered.type.k = "val" /\ ATTR_MODE \in delivered.type.v
    /\ delivered.desc = Val(mode)
    /\ outcome = "mode_heartbeat"
    /\ modeswitch = 1
    /\ modeDirty = <<0>>

\* C7: a mode event whose desc is the other recognized mode sets the mode
\* to it and marks every registered mode switch dirty exactly once.
C7_ModeChange ==
    [][(Handled /\ delivered'.type.k = "val" /\ ATTR_MODE \in delivered'.type.v
               /\ delivered'.desc \in {Val(ATTR_MODE_DEFAULT), Val(ATTR_MODE_HOME)}
               /\ delivered'.desc # Val(mode))
         => /\ mode' = delivered'.desc.v
            /\ modeDirty' = [i \in 1..modeswitch |-> 1]]_vars

\* C7: the mode went to home and the registered mode switch was marked once
C7_Witness ==
    /\ delivered \in Events
    /\ delivered.type.k = "val" /\ ATTR_MODE \in delivered.type.v
    /\ delivered.desc = Val(ATTR_MODE_HOME)
    /\ outcome = "mode_changed"
    /\ mode = ATTR_MODE_HOME
    /\ modeswitch = 1
    /\ modeDirty = <<1>>

\* C8: an event whose type holds none of the four tags is discarded: nothing
\* is raised, nothing is fired, and the mode and the cameras stay as they are.
C8_UnhandledDiscarded ==
    [][(Handled /\ delivered'.type.k = "val" /\ delivered'.type.v \cap Tags = {})
         => /\ outcome' # "error"
            /\ ~escaped'
            /\ fired' = <<>>
            /\ mode' = mode
            /\ cameras' = cameras]_vars

\* C8: an event of an unrecognized type was handled on the running hub
C8_Witness ==
    /\ delivered \in Events
    /\ delivered.type.k = "val" /\ delivered.type.v \cap Tags = {}
    /\ outcome = "unhandled"
    /\ phase = "running"
    /\ Len(cameras) = 2

\* C9: an alert gives every camera it matches the label of the event, or,
\* when detected_obj is missing, null or empty, the label "unknown" and the
\* time of the event as last_motion.
C9_AlertLabel ==
    [][(Handled /\ delivered'.type.k = "val" /\ BranchOf(delivered') = ATTR_ALERT
               /\ delivered'.cam_id.k = "val")
         => LET evt == delivered' IN
            \A i \in CamerasOf(cameras) :
               Matches(evt.cam_id.v, cameras[i].device_id) =>
                  IF evt.detected_obj.k = "val" /\ evt.detected_obj.v # ""
                  THEN cameras'[i].last_detected_obj = evt.detected_obj.v
                  ELSE /\ cameras'[i].last_detected_obj = ATTR_UNKNOWN_OBJ
                       /\ cameras'[i].last_motion = now]_vars

\* C10: a successful turn_off issues one disable_alert for the camera, with
\* the reason, and leaves is_on false; a successful turn_on issues one
\* enable_alert and leaves is_on true.
C10_ToggleReflected ==
    [][\A i \in CamerasOf(cameras) :
          /\ AlertSwitchTurnOff(i, TRUE) =>
                /\ commands' = <<[cmd |-> "disable_alert",
                                  cam_id |-> cameras[i].device_id,
                                  reason |-> ATTR_MODE_REASON]>>
                /\ ~AlertSwitchIsOn(cameras'[i])
          /\ AlertSwitchTurnOn(i, TRUE) =>
                /\ commands' = <<[cmd |-> "enable_alert",
                                  cam_id |-> cameras[i].device_id,
                                  reason |-> ATTR_MODE_REASON]>>
                /\ AlertSwitchIsOn(cameras'[i])]_vars

RecognizedModes == {ATTR_MODE_DEFAULT, ATTR_MODE_HOME}

\* C11 (as stated): a HubModeSwitch command that completes leaves the hub's
\* mode at the value it asked the vendor for: default after async_turn_on,
\* home after async_turn_off, whatever the info dict and the mode were.
C11_CommandSetsMode ==
    [][/\ (HubModeSwitchTurnOn(TRUE) /\ outcome' = "set_mode")
            => mode' = ATTR_MODE_DEFAULT
       /\ (HubModeSwitchTurnOff(TRUE) /\ outcome' = "set_mode")
            => mode' = ATTR_MODE_HOME]_vars

\* C12: when the vendor call of a switch command fails, the caller gets the
\* error, and the hub's mode and every camera are as they were before the
\* command.
C12_FailureSurfaced ==
    [][(\/ HubModeSwitchTurnOn(FALSE)
        \/ HubModeSwitchTurnOff(FALSE)
        \/ \E i \in CamerasOf(cameras) :
              AlertSwitchTurnOn(i, FALSE) \/ AlertSwitchTurnOff(i, FALSE))
         => /\ outcome' = "command_error"
            /\ mode' = mode
            /\ cameras' = cameras]_vars

\* C12: a set_mode call failed while the info dict held another mode than
\* the hub, and the hub kept its mode
C12_Witness ==
    /\ outcome = "command_error"
    /\ commands = SetModeCommand(ATTR_MODE_DEFAULT)
    /\ info \in RecognizedModes
    /\ mode # info

\* C13: when a step of async_initialize_hub fails the method returns False:
\* no listener is registered, the hub device is not registered, and no
\* camera, switch or sensor is created; when it succeeds exactly one
\* listener is registered.
C13_InitFailureAborts ==
    /\ (outcome = "init_failed") => (phase = "failed")
    /\ phase = "failed" =>
          /\ ~listening
          /\ listeners = 0
          /\ ~device
          /\ cameras = <<>>
          /\ modeswitch = 0
          /\ ~escaped
    /\ phase \in PostSetup => listeners = 1

\* C13: the info dict came without a mode and the setup was given up
C13_Witness ==
    /\ phase = "failed"
    /\ outcome = "init_failed"
    /\ info = NoMode
    /\ listeners = 0

\* C14: the first tag found in the type, in the order mode, alert, offline,
\* online, decides the branch, and nothing of a later tag's branch happens:
\* a type with "mode" fires nothing and touches no camera, a type with
\* "alert" fires only an alert and changes no offline flag, and a type with
\* "offline" stamps no motion and brings no camera online.
C14_FirstTagWins ==
    [][(Handled /\ delivered'.type.k = "val")
         => LET T == delivered'.type.v IN
            /\ Len(fired') <= 1
            /\ ATTR_MODE \in T => (fired' = <<>> /\ cameras' = cameras)
            /\ (ATTR_ALERT \in T /\ ATTR_MODE \notin T) =>
                  /\ \A k \in 1..Len(fired') : fired'[k].type = ATTR_ALERT
                  /\ mode' = mode
                  /\ \A i \in CamerasOf(cameras) :
                        cameras'[i].offline = cameras[i].offline
            /\ (ATTR_CAM_OFFLINE \in T /\ T \cap {ATTR_MODE, ATTR_ALERT} = {}) =>
                  /\ \A k \in 1..Len(fired') : fired'[k].type = ATTR_CAM_OFFLINE
                  /\ mode' = mode
                  /\ \A i \in CamerasOf(cameras) :
                        /\ cameras'[i].last_motion = cameras[i].last_motion
                        /\ cameras[i].offline => cameras'[i].offline]_vars

\* C14: an event of type "alert"+"offline" stamped a camera that is still
\* online and was forwarded as an alert
C14_Witness ==
    /\ delivered \in Events
    /\ delivered.type = Val({ATTR_ALERT, ATTR_CAM_OFFLINE})
    /\ Len(fired) = 1
    /\ fired[1].type = ATTR_ALERT
    /\ \E i \in CamerasOf(cameras) :
          camDirty[i] = 1 /\ cameras[i].last_motion = now /\ ~cameras[i].offline

\* C15 (as stated): every event of the alert branch is forwarded as exactly
\* one alert domain event, whether or not a camera matched, and changes no
\* camera when none matched.
C15_AlertAlwaysForwarded ==
    [][(Handled /\ delivered'.type.k = "val" /\ BranchOf(delivered') = ATTR_ALERT)
         => LET evt == delivered' IN
            /\ Len(fired') = 1
            /\ fired'[1].type = ATTR_ALERT
            /\ fired'[1].raw = evt
            /\ (\A i \in CamerasOf(cameras) :
                   ~(evt.cam_id.k = "val" /\ Matches(evt.cam_id.v, cameras[i].device_id)))
                 => cameras' = cameras]_vars

\* C16: the hub's mode is always one of the two recognized modes.
C16_ModeRecognized == mode \in RecognizedModes

\* C16: a refresh read a mode the hub does not recognize and the hub's mode
\* is default
C16_Witness ==
    /\ outcome = "mode_refreshed"
    /\ info = "away"
    /\ mode = ATTR_MODE_DEFAULT

\* C17 (as stated): the mode switch is on exactly when the hub's mode is
\* home; turning it on asks the vendor for home, turning it off for default.
C17_OnMeansHome ==
    [][/\ phase' = "running" => (HubModeSwitchIsOn(mode') = (mode' = ATTR_MODE_HOME))
       /\ HubModeSwitchTurnOn(TRUE) => commands' = SetModeCommand(ATTR_MODE_HOME)
       /\ HubModeSwitchTurnOff(TRUE) => commands' = SetModeCommand(ATTR_MODE_DEFAULT)]_vars

\* C18 (as stated): an event the handler fails on leaves the mode and every
\* camera's last_motion, last_detected_obj and offline flag as they were.
C18_NoPartialUpdate ==
    [][(Handled /\ outcome' = "error")
         => /\ mode' = mode
            /\ \A i \in CamerasOf(cameras) :
                  /\ cameras'[i].last_motion = cameras[i].last_motion
                  /\ cameras'[i].last_detected_obj = cameras[i].last_detected_obj
                  /\ cameras'[i].offline = cameras[i].offline]_vars

\* C19: a camera's offline flag is changed by nothing but an offline or
\* online event whose cam_id matches the camera: not by a mode event, an
\* alert, an unrecognized or discarded event, or a refresh.  Such an event,
\* carrying the cam_id and cam_name of the vendor's event shape, sets the
\* flag of every camera it matches to its kind (offline: true, online:
\* false) and is forwarded as exactly one domain event of that kind.  Step
\* by step, this makes the flag that of the last matching event, and false
\* when there was none.
C19_OfflineTracksEvents ==
    [][LET conn == /\ Handled
                   /\ delivered'.type.k = "val"
                   /\ BranchOf(delivered') \in {ATTR_CAM_OFFLINE, ATTR_CAM_ONLINE}
                   /\ delivered'.cam_id.k = "val"
           shaped == conn /\ delivered'.cam_name.k # "missing"
       IN /\ \A i \in CamerasOf(cameras) :
               LET hit == conn /\ Matches(delivered'.cam_id.v, cameras[i].device_id) IN
               /\ cameras'[i].offline # cameras[i].offline => hit
               /\ (hit /\ shaped) =>
                     cameras'[i].offline = (BranchOf(delivered') = ATTR_CAM_OFFLINE)
          /\ shaped =>
               /\ Len(fired') = 1
               /\ fired'[1].type = BranchOf(delivered')
               /\ fired'[1].raw = delivered']_vars

\* C19: one camera went offline, and an online event that matches only the
\* other camera was forwarded and left it offline
C19_Witness ==
    /\ outcome = ATTR_CAM_ONLINE
    /\ Len(fired) = 1
    /\ fired[1].type = ATTR_CAM_ONLINE
    /\ \E i, j \in CamerasOf(cameras) :
          /\ cameras[i].offline /\ camDirty[i] = 0
          /\ ~cameras[j].offline /\ camDirty[j] = 1

\* C20: a mode event whose desc is not one of the two recognized modes
\* leaves the mode, marks no mode switch dirty and fires nothing.
C20_UnknownModeDiscarded ==
    [][(Handled /\ delivered'.type.k = "val" /\ ATTR_MODE \in delivered'.type.v
               /\ delivered'.desc \notin {Val(ATTR_MODE_DEFAULT), Val(ATTR_MODE_HOME)})
         => /\ mode' = mode
            /\ modeDirty' = Zeros(modeswitch)
            /\ fired' = <<>>]_vars

\* C20: a mode event for "away" was discarded by a hub in mode home with its
\* mode switch registered
C20_Witness ==
    /\ delivered \in Events
    /\ delivered.type = Val({ATTR_MODE})
    /\ delivered.desc = Val("away")
    /\ outcome = "mode_unknown"
    /\ mode = ATTR_MODE_HOME
    /\ modeswitch = 1
    /\ modeDirty = <<0>>

\* C21: whatever is fired on the bus is fired by the handling of one vendor
\* event of the alert, offline or online branch: exactly one domain event,
\* of that branch's kind, carrying the vendor event and a target (the camera
\* of the event's cam_id, or the hub when cam_id is null).  Mode events,
\* unrecognized events and every other operation fire nothing.
C21_DomainEvents ==
    fired # <<>> =>
        /\ delivered \in Events
        /\ delivered.type.k = "val"
        /\ BranchOf(delivered) \in CameraBranches
        /\ outcome = BranchOf(delivered)
        /\ Len(fired) = 1
        /\ fired[1].type = BranchOf(delivered)
        /\ fired[1].raw = delivered
        /\ fired[1].device_id.hub = (delivered.cam_id.k = "null")
        /\ ~fired[1].device_id.hub => fired[1].device_id.cam_id = delivered.cam_id.v

\* C21: an offline event for a camera of the running hub was forwarded
C21_Witness ==
    /\ phase = "running"
    /\ delivered \in Events
    /\ BranchOf(delivered) = ATTR_CAM_OFFLINE
    /\ Len(fired) = 1
    /\ fired[1].type = ATTR_CAM_OFFLINE
    /\ fired[1].device_id = [hub |-> FALSE, cam_id |-> Cam456]
    /\ \E i \in CamerasOf(cameras) : cameras[i].offline

\* C22 (as stated): the handler, which the vendor client calls on its own
\* thread, calls no host method that is to be called in the event loop only.
C22_HandedOff ==
    [][Handled => \A k \in 1..Len(fired') : ~LoopOnly(fired'[k].call)]_vars

\* C23: a refresh of a camera leaves the mode and every other camera, and
\* leaves the camera's identifier, views, offline flag, last_motion and
\* last_detected_obj; it changes nothing when no listed camera's id matches,
\* and otherwise takes both flags from one matching listed camera.
C23_RefreshFrame ==
    [][outcome' = "refreshed" =>
         \A i \in CamerasOf(cameras), list \in CameraLists :
            CameraAsyncUpdate(i, list) =>
               LET hits == {k \in 1..Len(list) :
                               IsSubstr(list[k].id, cameras[i].device_id)}
               IN /\ mode' = mode
                  /\ \A j \in CamerasOf(cameras) \ {i} : cameras'[j] = cameras[j]
                  /\ cameras'[i].device_id = cameras[i].device_id
                  /\ cameras'[i].alert_switch = cameras[i].alert_switch
                  /\ cameras'[i].motion_sensor = cameras[i].motion_sensor
                  /\ cameras'[i].offline = cameras[i].offline
                  /\ cameras'[i].last_motion = cameras[i].last_motion
                  /\ cameras'[i].last_detected_obj = cameras[i].last_detected_obj
                  /\ hits = {} => cameras'[i] = cameras[i]
                  /\ hits # {} =>
                        \E k \in hits :
                           /\ cameras'[i].is_alert_disabled = list[k].is_alert_disabled
                           /\ cameras'[i].disabled = list[k].disabled]_vars

\* C23: a refresh disabled a camera that is offline and has seen motion,
\* in mode home
C23_Witness ==
    /\ outcome = "refreshed"
    /\ mode = ATTR_MODE_HOME
    /\ \E i \in CamerasOf(cameras) :
          /\ cameras[i].disabled
          /\ cameras[i].offline
          /\ cameras[i].last_motion # None
          /\ cameras[i].last_detected_obj = "person"

\* C24: the camera platform makes one camera per camera the vendor lists,
\* in the vendor's order; the later platforms leave the list as it is, and
\* once the setup is through every camera has exactly one alert switch and
\* one motion sensor and the hub has exactly one mode switch.
C24_OneViewEach ==
    [][/\ \A list \in DiscoveryLists :
             SetupCameras(list) =>
                /\ Len(cameras') = Len(list)
                /\ \A i \in 1..Len(list) : cameras'[i].device_id = list[i].id
       /\ phase' \in {"switches_ready", "running", "unloaded"} =>
             /\ Len(cameras') = Len(cameras)
             /\ \A i \in CamerasOf(cameras) :
                   cameras'[i].device_id = cameras[i].device_id
       /\ phase' = "running" =>
             /\ modeswitch' = 1
             /\ \A i \in CamerasOf(cameras') :
                   /\ cameras'[i].alert_switch = 1
                   /\ cameras'[i].motion_sensor = 1
                   /\ \A j \in CamerasOf(cameras') :
                         cameras'[j].device_id = cameras'[i].device_id => j = i]_vars

\* C24: the setup of a hub with two cameras is through
C24_Witness ==
    /\ phase = "running"
    /\ outcome = "sensors_added"
    /\ Len(cameras) = 2
    /\ modeswitch = 1
    /\ \A i \in CamerasOf(cameras) :
          cameras[i].alert_switch = 1 /\ cameras[i].motion_sensor = 1

\* C25 (as stated): when a mode-change event is handled between the two
\* awaits of HubModeSwitch.async_update, the mode the event set, which is the
\* vendor's latest, is still the hub's mode when the refresh is through.
C25_EventNotOverwritten ==
    [][(refreshing /\ outcome = "mode_changed" /\ HubModeSwitchUpdateMode)
         => mode' = mode]_vars

\* C26 (as stated): hass.data[DOMAIN] holds no hub for the entry after a
\* setup that failed and after an unload that succeeded, and still holds it
\* after an unload that failed.
C26_RegistryFollowsEntry ==
    /\ phase \in {"failed", "unloaded"} => ~registry
    /\ outcome = "unload_failed" => registry

====
